---- MODULE Spec2Model ----
(***************************************************************************)
(* Inventory ledger of hiteshkaka10/inventory_Dashboard.                   *)
(*                                                                         *)
(* The repository holds two programs:                                      *)
(*   src/inventory_app.py                      the Google-Sheets variant   *)
(*       (worksheet "Inventory" = ws, worksheet "Logs" = log_sheet, the    *)
(*        pending lists add_list / moves_list / purchase_list of the       *)
(*        session and the page the session is on);                         *)
(*   src/inventory_dashboard/inventory_app.py  the dashboard variant       *)
(*       (session_state.inventory and session_state.logs).                 *)
(* A behaviour runs one of the two programs; `app` says which.             *)
(*                                                                         *)
(* In the sheets variant every script run starts from                      *)
(* df = fetch_inventory_data(); every successful write of ws is followed   *)
(* by clear_cache(), so in a single session df is the content of ws.       *)
(* The data editor of the "View Items" page (free editing of the sheet)    *)
(* is not an add, move or purchase and is not modelled.  Pages are changed *)
(* with the sidebar; the Home-page buttons and "Back to Home", which set   *)
(* current_page and nothing else, are left out.                            *)
(***************************************************************************)
EXTENDS Integers, Sequences, FiniteSets, TLC

VARIABLES
    app,            \* which program runs: "sheets" or "dashboard"
    current_page,   \* st.session_state['current_page']           (sheets)
    ws,             \* rows of worksheet "Inventory"              (sheets)
    log_sheet,      \* rows of worksheet "Logs"                   (sheets)
    add_list,       \* st.session_state['add_list']               (sheets)
    moves_list,     \* st.session_state['moves_list']             (sheets)
    purchase_list,  \* st.session_state['purchase_list']          (sheets)
    inventory,      \* st.session_state.inventory                 (dashboard)
    logs,           \* st.session_state.logs                      (dashboard)
    now,            \* datetime.now(), counted in slots of a day   (dashboard)
    daily_summary,  \* daily_summary of the Dashboard page         (dashboard)
    faults,         \* gspread calls that have raised so far      (sheets)
    cache,          \* st.cache_data entry of fetch_inventory_data: <<>> or <<df>>
    sessions        \* the browser sessions that share the two worksheets (sheets)

vars == <<app, current_page, ws, log_sheet, add_list, moves_list,
          purchase_list, inventory, logs, now, daily_summary, faults,
          cache, sessions>>

\* the clock, the Dashboard page and the concurrent sessions, which no add,
\* move or purchase of the single session touches
pageVars == <<now, daily_summary, cache, sessions>>

----------------------------------------------------------------------------
(* Bounds of the model *)

\* largest quantity typed into a number_input of the sheets variant
MaxQty == 2
\* most rows of the "Logs" worksheet
MaxLog == 2
\* most rows of the dashboard's logs
MaxDashLog == 2
\* persistence calls that raise in one run
MaxFaults == 1

----------------------------------------------------------------------------
(* Input domains *)

\* names typed into "Item Name"; "" is the empty text field
Names == {"A", "B"}
\* texts typed into "Category"
Categories == {"c"}
Locations == {"godown", "Shop"}
menu == {"Home", "View Items", "Add Item", "Move Item", "Purchase Item", "View Logs"}

\* quantities typed into the dashboard's number_input (min_value=1):
\* 50 empties "Plastic Chair" exactly, 51 exceeds it
DashQtys == {1, 50, 51}
DashActions == {"Move Item", "Purchase Item"}

----------------------------------------------------------------------------
(* Helpers over tables *)

AllTrue(n) == [i \in 1..n |-> TRUE]

\* df = fetch_inventory_data(): the rows of the worksheet
fetch_inventory_data == ws

\* df['Item Name'].tolist()
item_names(df) == {df[i].Item_Name : i \in 1..Len(df)}

\* df.loc[df['Item Name'] == item, 'Current Stock'].values[0] / .iloc[0]
FirstStock(df, item) ==
    LET idx == {i \in 1..Len(df) : df[i].Item_Name = item}
        first == CHOOSE i \in idx : \A j \in idx : i <= j
    IN df[first].Current_Stock

\* the persistence calls of one batch that raise: set_with_dataframe when the
\* save fails, and each append_row that fails inside log_action
Failures(saveOk, oks) ==
    (IF saveOk THEN 0 ELSE 1) + Cardinality({i \in DOMAIN oks : ~oks[i]})

\* log_action writing the new row at the top of the sheet (insert_row(.., 1))
log_action_InsertTop(sheet, entry, ok) == IF ok THEN <<entry>> \o sheet ELSE sheet

\* log_sheet.append_row(log_data); a failed append is caught and only warned
log_action(sheet, entry, ok) == IF ok THEN Append(sheet, entry) ELSE sheet

----------------------------------------------------------------------------
(* Sheets variant: navigation *)

\* the session of the model ends when the "Logs" worksheet holds MaxLog rows
LogHasRoom == Len(log_sheet) < MaxLog

\* sidebar selectbox: a new choice changes page and clears the three lists
Navigate(choice) ==
    /\ app = "sheets"
    /\ LogHasRoom
    /\ choice # current_page
    /\ current_page' = choice
    /\ add_list' = <<>>
    /\ moves_list' = <<>>
    /\ purchase_list' = <<>>
    /\ UNCHANGED <<app, ws, log_sheet, inventory, logs, pageVars, faults>>

\* entries waiting in the three lists; a list entry is only taken while the
\* "Logs" worksheet of the model has room for the row its execution writes
Pending == Len(add_list) + Len(moves_list) + Len(purchase_list)

RoomToLog == Len(log_sheet) + Pending < MaxLog

----------------------------------------------------------------------------
(* Sheets variant: Add Item *)

\* the validation without its "initial_stock == 0" test
AddInputValid_NoQtyCheck(name, category, location, initial_stock) ==
    ~(name = "" \/ category = "" \/ location = "")

\* if not name or not category or not location or initial_stock == 0: st.error
AddInputValid(name, category, location, initial_stock) ==
    ~(name = "" \/ category = "" \/ location = "" \/ initial_stock = 0)

AddEntry(name, category, location, initial_stock) ==
    [Item_Name |-> name, Category |-> category, Location |-> location,
     Initial_stock |-> initial_stock, Current_Stock |-> initial_stock]

\* the "+" button of add_item_form
AddItemSubmit(name, category, location, initial_stock) ==
    /\ app = "sheets"
    /\ current_page = "Add Item"
    /\ RoomToLog
    /\ IF AddInputValid(name, category, location, initial_stock)
       THEN add_list' = Append(add_list, AddEntry(name, category, location, initial_stock))
       ELSE add_list' = add_list
    /\ UNCHANGED <<app, current_page, ws, log_sheet, moves_list, purchase_list,
                   inventory, logs, pageVars, faults>>

\* item['Sr No'] = next_sr_no for the items of the list, in order
NewItems(df, list) ==
    [i \in 1..Len(list) |->
        [Sr_No |-> Len(df) + i,
         Item_Name |-> list[i].Item_Name,
         Category |-> list[i].Category,
         Location |-> list[i].Location,
         Initial_stock |-> list[i].Initial_stock,
         Current_Stock |-> list[i].Current_Stock]]

\* pd.concat([df, new_items_df], ignore_index=True)
AddRows(df, list) == df \o NewItems(df, list)

AddLog(item) ==
    [Action |-> "Add", Item_Name |-> item.Item_Name,
     Details |-> [Quantity |-> item.Initial_stock]]

RECURSIVE AddLogs(_, _, _)
AddLogs(sheet, list, oks) ==
    IF list = <<>> THEN sheet
    ELSE AddLogs(log_action(sheet, AddLog(Head(list)), Head(oks)), Tail(list), Tail(oks))

\* "Execute All Additions": save the table, then log, then clear the list;
\* a failed save raises before anything is logged or cleared
ExecuteAllAdditions(saveOk, oks) ==
    /\ app = "sheets"
    /\ current_page = "Add Item"
    /\ add_list # <<>>
    /\ faults + Failures(saveOk, oks) <= MaxFaults
    /\ faults' = faults + Failures(saveOk, oks)
    /\ Len(log_sheet) + Len(add_list) <= MaxLog
    /\ LET df == fetch_inventory_data
       IN IF saveOk
          THEN /\ ws' = AddRows(df, add_list)
               /\ log_sheet' = AddLogs(log_sheet, add_list, oks)
               /\ add_list' = <<>>
          ELSE UNCHANGED <<ws, log_sheet, add_list>>
    /\ UNCHANGED <<app, current_page, moves_list, purchase_list, inventory, logs, pageVars>>

CancelAdd ==
    /\ app = "sheets"
    /\ current_page = "Add Item"
    /\ add_list # <<>>
    /\ add_list' = <<>>
    /\ UNCHANGED <<app, current_page, ws, log_sheet, moves_list, purchase_list,
                   inventory, logs, pageVars, faults>>

----------------------------------------------------------------------------
(* Sheets variant: Move Item *)

MoveEntry(selected_item, from_location, to_location, move_quantity) ==
    [Item_Name |-> selected_item, From_Location |-> from_location,
     To_Location |-> to_location, Quantity |-> move_quantity]

\* the checks of the "+" button of move_item_form
MoveInputAccepted(df, selected_item, to_location, move_quantity) ==
    /\ ~(selected_item = "" \/ to_location = "" \/ move_quantity = 0)
    /\ ~(move_quantity > FirstStock(df, selected_item))

MoveItemSubmit(selected_item, from_location, to_location, move_quantity) ==
    /\ app = "sheets"
    /\ current_page = "Move Item"
    /\ RoomToLog
    /\ LET df == fetch_inventory_data
       IN /\ selected_item \in {""} \cup item_names(df)
          /\ IF MoveInputAccepted(df, selected_item, to_location, move_quantity)
             THEN moves_list' = Append(moves_list,
                     MoveEntry(selected_item, from_location, to_location, move_quantity))
             ELSE moves_list' = moves_list
    /\ UNCHANGED <<app, current_page, ws, log_sheet, add_list, purchase_list,
                   inventory, logs, pageVars, faults>>

\* df.loc[df['Item Name'] == item_name, 'Current Stock'] -= move_quantity
\* df.loc[df['Item Name'] == item_name, 'Location'] = to_location
MoveRows(df, move) ==
    [i \in 1..Len(df) |->
        IF df[i].Item_Name = move.Item_Name
        THEN [df[i] EXCEPT !.Current_Stock = @ - move.Quantity,
                           !.Location = move.To_Location]
        ELSE df[i]]

MoveLog(move) ==
    [Action |-> "Move", Item_Name |-> move.Item_Name,
     Details |-> [Quantity |-> move.Quantity, From |-> move.From_Location,
                  To |-> move.To_Location]]

\* the for loop of "Execute All Moves": <<df, log sheet>> after the moves
RECURSIVE MovesLoop(_, _, _, _)
MovesLoop(df, sheet, list, oks) ==
    IF list = <<>> THEN <<df, sheet>>
    ELSE MovesLoop(MoveRows(df, Head(list)),
                   log_action(sheet, MoveLog(Head(list)), Head(oks)),
                   Tail(list), Tail(oks))

\* "Execute All Moves": apply and log every move, then save the table;
\* a failed save leaves the sheet and the list as they were, the log written
ExecuteAllMoves(saveOk, oks) ==
    /\ app = "sheets"
    /\ current_page = "Move Item"
    /\ moves_list # <<>>
    /\ faults + Failures(saveOk, oks) <= MaxFaults
    /\ faults' = faults + Failures(saveOk, oks)
    /\ Len(log_sheet) + Len(moves_list) <= MaxLog
    /\ LET out == MovesLoop(fetch_inventory_data, log_sheet, moves_list, oks)
       IN /\ log_sheet' = out[2]
          /\ IF saveOk
             THEN ws' = out[1] /\ moves_list' = <<>>
             ELSE UNCHANGED <<ws, moves_list>>
    /\ UNCHANGED <<app, current_page, add_list, purchase_list, inventory, logs, pageVars>>

CancelMove ==
    /\ app = "sheets"
    /\ current_page = "Move Item"
    /\ moves_list # <<>>
    /\ moves_list' = <<>>
    /\ UNCHANGED <<app, current_page, ws, log_sheet, add_list, purchase_list,
                   inventory, logs, pageVars, faults>>

----------------------------------------------------------------------------
(* Sheets variant: Purchase Item *)

PurchaseEntry(selected_item, purchase_quantity) ==
    [Item_Name |-> selected_item, Quantity |-> purchase_quantity]

PurchaseInputValid(selected_item, purchase_quantity) ==
    ~(selected_item = "" \/ purchase_quantity = 0)

PurchaseItemSubmit(selected_item, purchase_quantity) ==
    /\ app = "sheets"
    /\ current_page = "Purchase Item"
    /\ RoomToLog
    /\ selected_item \in {""} \cup item_names(fetch_inventory_data)
    /\ IF PurchaseInputValid(selected_item, purchase_quantity)
       THEN purchase_list' = Append(purchase_list,
                                    PurchaseEntry(selected_item, purchase_quantity))
       ELSE purchase_list' = purchase_list
    /\ UNCHANGED <<app, current_page, ws, log_sheet, add_list, moves_list,
                   inventory, logs, pageVars, faults>>

\* df.loc[df['Item Name'] == item_name, 'Current Stock'] += purchase_quantity
PurchaseRows(df, purchase) ==
    [i \in 1..Len(df) |->
        IF df[i].Item_Name = purchase.Item_Name
        THEN [df[i] EXCEPT !.Current_Stock = @ + purchase.Quantity]
        ELSE df[i]]

\* "Purchased {q} units. New stock: {df.loc[...,'Current Stock'].iloc[0]}."
PurchaseLog(df, purchase) ==
    [Action |-> "Purchase", Item_Name |-> purchase.Item_Name,
     Details |-> [Quantity |-> purchase.Quantity,
                  New_stock |-> FirstStock(df, purchase.Item_Name)]]

\* the for loop of "Execute All Purchases"
RECURSIVE PurchasesLoop(_, _, _, _)
PurchasesLoop(df, sheet, list, oks) ==
    IF list = <<>> THEN <<df, sheet>>
    ELSE LET df2 == PurchaseRows(df, Head(list))
         IN PurchasesLoop(df2,
                          log_action(sheet, PurchaseLog(df2, Head(list)), Head(oks)),
                          Tail(list), Tail(oks))

ExecuteAllPurchases(saveOk, oks) ==
    /\ app = "sheets"
    /\ current_page = "Purchase Item"
    /\ purchase_list # <<>>
    /\ faults + Failures(saveOk, oks) <= MaxFaults
    /\ faults' = faults + Failures(saveOk, oks)
    /\ Len(log_sheet) + Len(purchase_list) <= MaxLog
    /\ LET out == PurchasesLoop(fetch_inventory_data, log_sheet, purchase_list, oks)
       IN /\ log_sheet' = out[2]
          /\ IF saveOk
             THEN ws' = out[1] /\ purchase_list' = <<>>
             ELSE UNCHANGED <<ws, purchase_list>>
    /\ UNCHANGED <<app, current_page, add_list, moves_list, inventory, logs, pageVars>>

CancelPurchase ==
    /\ app = "sheets"
    /\ current_page = "Purchase Item"
    /\ purchase_list # <<>>
    /\ purchase_list' = <<>>
    /\ UNCHANGED <<app, current_page, ws, log_sheet, add_list, moves_list,
                   inventory, logs, pageVars, faults>>

----------------------------------------------------------------------------
(* Dashboard variant *)

BottleStock == 100
ChairStock == 50
BoxStock == 200

\* the example items of st.session_state.inventory
InitialInventory ==
    << [Item |-> "Plastic Bottle", Initial_Stock |-> BottleStock, Current_Stock |-> BottleStock],
       [Item |-> "Plastic Chair",  Initial_Stock |-> ChairStock,  Current_Stock |-> ChairStock],
       [Item |-> "Plastic Box",    Initial_Stock |-> BoxStock,    Current_Stock |-> BoxStock] >>

DashItems(df) == {df[i].Item : i \in 1..Len(df)}

\* df.loc[df["Item"] == item, "Current_Stock"].values[0]
DashStock(df, item) ==
    LET idx == {i \in 1..Len(df) : df[i].Item = item}
        first == CHOOSE i \in idx : \A j \in idx : i <= j
    IN df[first].Current_Stock

\* df.loc[df["Item"] == item, "Current_Stock"] += delta
DashAdjust(df, item, delta) ==
    [i \in 1..Len(df) |->
        IF df[i].Item = item
        THEN [df[i] EXCEPT !.Current_Stock = @ + delta]
        ELSE df[i]]

\* the test that skips a move ("Not enough stock for {item}")
NotEnoughStock(df, item, qty) == qty > DashStock(df, item)

\* new_log = {"Time": datetime.now(), "Action": .., "Item": .., "Quantity": ..,
\*            "Final Count": ..}
NewLog(action, item, qty, final_count) ==
    [Time |-> now, Action |-> action, Item |-> item, Quantity |-> qty,
     Final_Count |-> final_count]

\* the loop body reading final_count before it updates Current_Stock
TransactItem_StaleFinal(df, lg, action, item, qty) ==
    IF action = "Move Item"
    THEN IF NotEnoughStock(df, item, qty)
         THEN <<df, lg>>
         ELSE <<DashAdjust(df, item, -qty),
                Append(lg, NewLog("Move", item, qty, DashStock(df, item)))>>
    ELSE <<DashAdjust(df, item, qty),
           Append(lg, NewLog("Purchase", item, qty, DashStock(df, item)))>>

\* one pass of the loop body of "Confirm Transaction": <<df, logs>> afterwards
TransactItem(df, lg, action, item, qty) ==
    IF action = "Move Item"
    THEN IF NotEnoughStock(df, item, qty)
         THEN <<df, lg>>
         ELSE LET df2 == DashAdjust(df, item, -qty)
              IN <<df2, Append(lg, NewLog("Move", item, qty, DashStock(df2, item)))>>
    ELSE LET df2 == DashAdjust(df, item, qty)
         IN <<df2, Append(lg, NewLog("Purchase", item, qty, DashStock(df2, item)))>>

\* for item, qty in quantities.items(); quantities is a sequence of
\* [item, qty] in the order of the multiselect
RECURSIVE TransactLoop(_, _, _, _)
TransactLoop(df, lg, action, quantities) ==
    IF quantities = <<>> THEN <<df, lg>>
    ELSE LET out == TransactItem(df, lg, action, Head(quantities).item, Head(quantities).qty)
         IN TransactLoop(out[1], out[2], action, Tail(quantities))

\* the selections of st.multiselect with a quantity each: sequences of
\* distinct items of the inventory
Selections(df) ==
    LET one == {[item |-> i, qty |-> q] : i \in DashItems(df), q \in DashQtys}
        seqs == {<<>>} \cup {<<a>> : a \in one} \cup {<<a, b>> : a \in one, b \in one}
                \cup {<<a, b, c>> : a \in one, b \in one, c \in one}
    IN {s \in seqs : \A i, j \in 1..Len(s) : i # j => s[i].item # s[j].item}

ConfirmTransaction(action, quantities) ==
    /\ app = "dashboard"
    /\ Len(logs) + Len(quantities) <= MaxDashLog
    /\ LET out == TransactLoop(inventory, logs, action, quantities)
       IN /\ inventory' = out[1]
          /\ logs' = out[2]
    /\ UNCHANGED <<app, current_page, ws, log_sheet, add_list, moves_list, purchase_list,
                   pageVars, faults>>

----------------------------------------------------------------------------
(* Dashboard variant: the clock and the Dashboard page *)

\* latest reading of the clock
MaxTime == 2
\* clock readings that fall on one calendar date
SlotsPerDay == 2

\* time passes
Tick ==
    /\ app = "dashboard"
    /\ now < MaxTime
    /\ now' = now + 1
    /\ UNCHANGED <<app, current_page, ws, log_sheet, add_list, moves_list, purchase_list,
                   inventory, logs, daily_summary, faults, cache, sessions>>

\* the grouping key taken as the Time itself, without .dt.date
DateOf_Identity(time) == time

\* pd.to_datetime(logs["Time"]).dt.date
DateOf(time) == time \div SlotsPerDay

\* the group keys of groupby("Date")
Dates(lg) == {DateOf(lg[i].Time) : i \in 1..Len(lg)}

\* groupby sorts the group keys
RECURSIVE SortedKeys(_)
SortedKeys(keys) ==
    IF keys = {} THEN <<>>
    ELSE LET first == CHOOSE d \in keys : \A e \in keys : d <= e
         IN <<first>> \o SortedKeys(keys \ {first})

\* ["Quantity"].sum() of the group of one date
RECURSIVE GroupSum(_, _)
GroupSum(lg, date) ==
    IF lg = <<>> THEN 0
    ELSE (IF DateOf(Head(lg).Time) = date THEN Head(lg).Quantity ELSE 0)
         + GroupSum(Tail(lg), date)

\* logs.groupby("Date")["Quantity"].sum().reset_index()
aggregate_daily(lg) ==
    LET keys == SortedKeys(Dates(lg))
    IN [k \in 1..Len(keys) |-> [Date |-> keys[k], Quantity |-> GroupSum(lg, keys[k])]]

\* the Dashboard page: an empty log shows "No item movements recorded yet."
\* and no summary
DashboardPage ==
    /\ app = "dashboard"
    /\ daily_summary' = IF logs = <<>> THEN <<>> ELSE aggregate_daily(logs)
    /\ UNCHANGED <<app, current_page, ws, log_sheet, add_list, moves_list, purchase_list,
                   inventory, logs, now, faults, cache, sessions>>

----------------------------------------------------------------------------
(* Sheets variant: several sessions on the same two worksheets *)

\* Every browser session runs the script in a thread of its own, with its own
\* st.session_state; the worksheets and the st.cache_data entry are shared.
\* A script run reads the table (fetch_inventory_data), and the run of an
\* "Execute All ..." button then applies and logs its list and saves the whole
\* table: three separate calls, between which another session's run may act.
Sessions == {1, 2}

\* session state of a fresh session, and the position of its script run
NewSession ==
    [current_page |-> "Home", moves_list |-> <<>>, purchase_list |-> <<>>,
     pc |-> "idle", df |-> <<>>]

\* @st.cache_data(ttl=60): the cached table if there is one, else the sheet
cached_fetch == IF cache = <<>> THEN ws ELSE cache[1]

\* the entry is dropped after its 60 seconds
CacheExpires ==
    /\ app = "sheets"
    /\ cache # <<>>
    /\ cache' = <<>>
    /\ UNCHANGED <<app, current_page, ws, log_sheet, add_list, moves_list, purchase_list,
                   inventory, logs, now, daily_summary, faults, sessions>>

\* entries waiting in the lists of all sessions
PendingAll(n) ==
    LET RECURSIVE Sum(_)
        Sum(S) == IF S = {} THEN 0
                  ELSE LET x == CHOOSE y \in S : TRUE
                       IN Len(sessions[x].moves_list) + Len(sessions[x].purchase_list)
                          + Sum(S \ {x})
    IN Sum(Sessions) + n

\* sidebar selectbox of session s
SessionNavigate(s, choice) ==
    /\ app = "sheets"
    /\ sessions[s].pc = "idle"
    /\ Len(log_sheet) + PendingAll(0) < MaxLog
    /\ choice # sessions[s].current_page
    /\ sessions' = [sessions EXCEPT ![s].current_page = choice,
                                    ![s].moves_list = <<>>,
                                    ![s].purchase_list = <<>>]
    /\ cache' = <<cached_fetch>>
    /\ UNCHANGED <<app, current_page, ws, log_sheet, add_list, moves_list, purchase_list,
                   inventory, logs, now, daily_summary, faults>>

\* "+" of move_item_form in session s
SessionMoveSubmit(s, selected_item, from_location, to_location, move_quantity) ==
    /\ app = "sheets"
    /\ sessions[s].pc = "idle"
    /\ sessions[s].current_page = "Move Item"
    /\ Len(log_sheet) + PendingAll(1) <= MaxLog
    /\ LET df == cached_fetch
       IN /\ selected_item \in item_names(df)
          /\ MoveInputAccepted(df, selected_item, to_location, move_quantity)
          /\ sessions' = [sessions EXCEPT ![s].moves_list = Append(@,
                            MoveEntry(selected_item, from_location, to_location,
                                      move_quantity))]
          /\ cache' = <<df>>
    /\ UNCHANGED <<app, current_page, ws, log_sheet, add_list, moves_list, purchase_list,
                   inventory, logs, now, daily_summary, faults>>

\* "+" of purchase_item_form in session s
SessionPurchaseSubmit(s, selected_item, purchase_quantity) ==
    /\ app = "sheets"
    /\ sessions[s].pc = "idle"
    /\ sessions[s].current_page = "Purchase Item"
    /\ Len(log_sheet) + PendingAll(1) <= MaxLog
    /\ selected_item \in item_names(cached_fetch)
    /\ PurchaseInputValid(selected_item, purchase_quantity)
    /\ sessions' = [sessions EXCEPT ![s].purchase_list = Append(@,
                      PurchaseEntry(selected_item, purchase_quantity))]
    /\ cache' = <<cached_fetch>>
    /\ UNCHANGED <<app, current_page, ws, log_sheet, add_list, moves_list, purchase_list,
                   inventory, logs, now, daily_summary, faults>>

\* an "Execute All ..." button is pressed in session s: the script run starts
\* with df = fetch_inventory_data()
SessionFetch(s) ==
    /\ app = "sheets"
    /\ sessions[s].pc = "idle"
    /\ \/ sessions[s].current_page = "Move Item" /\ sessions[s].moves_list # <<>>
       \/ sessions[s].current_page = "Purchase Item" /\ sessions[s].purchase_list # <<>>
    /\ sessions' = [sessions EXCEPT ![s].pc = "loop", ![s].df = cached_fetch]
    /\ cache' = <<cached_fetch>>
    /\ UNCHANGED <<app, current_page, ws, log_sheet, add_list, moves_list, purchase_list,
                   inventory, logs, now, daily_summary, faults>>

\* the for loop of the button: the list is applied to the run's df and logged
SessionLoop(s) ==
    /\ app = "sheets"
    /\ sessions[s].pc = "loop"
    /\ LET me == sessions[s]
           out == IF me.current_page = "Move Item"
                  THEN MovesLoop(me.df, log_sheet, me.moves_list,
                                 AllTrue(Len(me.moves_list)))
                  ELSE PurchasesLoop(me.df, log_sheet, me.purchase_list,
                                     AllTrue(Len(me.purchase_list)))
       IN /\ sessions' = [sessions EXCEPT ![s].pc = "save", ![s].df = out[1]]
          /\ log_sheet' = out[2]
    /\ UNCHANGED <<app, current_page, ws, add_list, moves_list, purchase_list,
                   inventory, logs, now, daily_summary, faults, cache>>

\* set_with_dataframe(ws, df), the list is cleared, clear_cache()
SessionSave(s) ==
    /\ app = "sheets"
    /\ sessions[s].pc = "save"
    /\ ws' = sessions[s].df
    /\ sessions' = [sessions EXCEPT ![s].pc = "idle", ![s].df = <<>>,
                                    ![s].moves_list = <<>>,
                                    ![s].purchase_list = <<>>]
    /\ cache' = <<>>
    /\ UNCHANGED <<app, current_page, log_sheet, add_list, moves_list, purchase_list,
                   inventory, logs, now, daily_summary, faults>>

----------------------------------------------------------------------------
(* Specification *)

\* The "Inventory" worksheet as the session finds it: freshly created (a header
\* only), or holding one item that an earlier session added
InitialSheets ==
    { <<>>,
      << [Sr_No |-> 1, Item_Name |-> "A", Category |-> "c", Location |-> "godown",
          Initial_stock |-> MaxQty, Current_Stock |-> MaxQty] >> }

Init ==
    /\ app \in {"sheets", "dashboard"}
    /\ current_page = "Home"
    /\ ws \in (IF app = "sheets" THEN InitialSheets ELSE {<<>>})
    /\ log_sheet = <<>>
    /\ add_list = <<>>
    /\ moves_list = <<>>
    /\ purchase_list = <<>>
    /\ inventory = InitialInventory
    /\ logs = <<>>
    /\ now = 0
    /\ daily_summary = <<>>
    /\ faults = 0
    /\ cache = <<>>
    /\ sessions = [s \in Sessions |-> NewSession]

Next ==
    \/ \E choice \in menu : Navigate(choice)
    \/ \E name \in Names \cup {""}, category \in Categories \cup {""},
          location \in Locations, initial_stock \in 0..MaxQty :
            AddItemSubmit(name, category, location, initial_stock)
    \/ ExecuteAllAdditions(TRUE, AllTrue(Len(add_list)))
    \/ CancelAdd
    \/ \E selected_item \in Names \cup {""}, from_location \in Locations,
          to_location \in Locations, move_quantity \in 0..MaxQty :
            MoveItemSubmit(selected_item, from_location, to_location, move_quantity)
    \/ ExecuteAllMoves(TRUE, AllTrue(Len(moves_list)))
    \/ CancelMove
    \/ \E selected_item \in Names \cup {""}, purchase_quantity \in 0..MaxQty :
            PurchaseItemSubmit(selected_item, purchase_quantity)
    \/ ExecuteAllPurchases(TRUE, AllTrue(Len(purchase_list)))
    \/ CancelPurchase
    \/ \E action \in DashActions, quantities \in Selections(inventory) :
            ConfirmTransaction(action, quantities)

Spec == Init /\ [][Next]_vars

\* the transactions of the runs that watch the Dashboard page: one or two of
\* the first two items, one unit or fifty
DailySelections ==
    {s \in Selections(inventory) :
        /\ Len(s) <= 2
        /\ \A k \in 1..Len(s) :
             s[k].item \in {"Plastic Bottle", "Plastic Chair"} /\ s[k].qty \in {1, 50}}

InitDaily == Init /\ app = "dashboard"

NextDaily ==
    \/ Tick
    \/ \E action \in DashActions, quantities \in DailySelections :
            ConfirmTransaction(action, quantities)
    \/ DashboardPage

\* the dashboard variant with its clock and its Dashboard page
SpecDaily == InitDaily /\ [][NextDaily]_vars

\* the outcomes of the log appends of one batch: each append succeeds, or
\* raises inside log_action, which catches the exception
LogOutcomes(list) == [1..Len(list) -> BOOLEAN]

InitPersist == Init /\ app = "sheets"

\* the Google-Sheets variant when set_with_dataframe and append_row may raise
NextPersist ==
    \/ \E choice \in menu : Navigate(choice)
    \/ \E name \in Names \cup {""}, category \in Categories \cup {""},
          location \in Locations, initial_stock \in 0..MaxQty :
            AddItemSubmit(name, category, location, initial_stock)
    \/ \E saveOk \in BOOLEAN, oks \in LogOutcomes(add_list) :
            ExecuteAllAdditions(saveOk, oks)
    \/ CancelAdd
    \/ \E selected_item \in Names \cup {""}, from_location \in Locations,
          to_location \in Locations, move_quantity \in 0..MaxQty :
            MoveItemSubmit(selected_item, from_location, to_location, move_quantity)
    \/ \E saveOk \in BOOLEAN, oks \in LogOutcomes(moves_list) :
            ExecuteAllMoves(saveOk, oks)
    \/ CancelMove
    \/ \E selected_item \in Names \cup {""}, purchase_quantity \in 0..MaxQty :
            PurchaseItemSubmit(selected_item, purchase_quantity)
    \/ \E saveOk \in BOOLEAN, oks \in LogOutcomes(purchase_list) :
            ExecuteAllPurchases(saveOk, oks)
    \/ CancelPurchase

SpecPersist == InitPersist /\ [][NextPersist]_vars

\* the sessions start on a sheet that holds item A
ConcSheet ==
    << [Sr_No |-> 1, Item_Name |-> "A", Category |-> "c", Location |-> "godown",
        Initial_stock |-> MaxQty, Current_Stock |-> MaxQty] >>

InitConc == Init /\ app = "sheets" /\ ws = ConcSheet

NextConc ==
    \/ CacheExpires
    \/ \E s \in Sessions, choice \in {"Move Item", "Purchase Item"} :
            SessionNavigate(s, choice)
    \/ \E s \in Sessions, selected_item \in Names, from_location \in Locations,
          to_location \in Locations, move_quantity \in 1..MaxQty :
            SessionMoveSubmit(s, selected_item, from_location, to_location, move_quantity)
    \/ \E s \in Sessions, selected_item \in Names, purchase_quantity \in 1..MaxQty :
            SessionPurchaseSubmit(s, selected_item, purchase_quantity)
    \/ \E s \in Sessions : SessionFetch(s)
    \/ \E s \in Sessions : SessionLoop(s)
    \/ \E s \in Sessions : SessionSave(s)

\* the Google-Sheets variant with its sessions running side by side
SpecConc == InitConc /\ [][NextConc]_vars

----------------------------------------------------------------------------
(* Vocabulary of the properties *)

RECURSIVE SumCurrent(_, _)
SumCurrent(df, idx) ==
    IF idx = {} THEN 0
    ELSE LET i == CHOOSE j \in idx : TRUE
         IN df[i].Current_Stock + SumCurrent(df, idx \ {i})

\* balance of (item, location): the stock of the rows of that item at that place
StockAt(df, item, location) ==
    SumCurrent(df, {i \in 1..Len(df) :
                      df[i].Item_Name = item /\ df[i].Location = location})

\* stock of an item summed over all locations
TotalStock(df, item) ==
    SumCurrent(df, {i \in 1..Len(df) : df[i].Item_Name = item})

\* no two rows of the table share item and location
OneEntryPerPair(df) ==
    \A i, j \in 1..Len(df) :
        (i # j /\ df[i].Item_Name = df[j].Item_Name) => df[i].Location # df[j].Location

IsPrefix(s, t) == Len(s) <= Len(t) /\ SubSeq(t, 1, Len(s)) = s

\* the steps that execute the pending list with the table saved and every row logged
MovesStep == ExecuteAllMoves(TRUE, AllTrue(Len(moves_list)))
PurchasesStep == ExecuteAllPurchases(TRUE, AllTrue(Len(purchase_list)))
AdditionsStep == ExecuteAllAdditions(TRUE, AllTrue(Len(add_list)))

\* table and log sheet before and after the k-th move of the pending list
BeforeMove(k) ==
    MovesLoop(ws, log_sheet, SubSeq(moves_list, 1, k - 1), AllTrue(k - 1))
AfterMove(k) ==
    MovesLoop(ws, log_sheet, SubSeq(moves_list, 1, k), AllTrue(k))

\* table and log sheet before and after the k-th purchase of the pending list
BeforePurchase(k) ==
    PurchasesLoop(ws, log_sheet, SubSeq(purchase_list, 1, k - 1), AllTrue(k - 1))
AfterPurchase(k) ==
    PurchasesLoop(ws, log_sheet, SubSeq(purchase_list, 1, k), AllTrue(k))

----------------------------------------------------------------------------
(* C1: a move of q units of an item from A to B (A # B), executed when the *)
(* stock of the item at A is at least q, lowers the stock at A by exactly  *)
(* q, raises the stock at B by exactly q and keeps the item's total stock. *)
C1_MoveConservesStock ==
    [][MovesStep =>
        \A k \in 1..Len(moves_list) :
            LET m == moves_list[k]
                before == BeforeMove(k)[1]
                after == AfterMove(k)[1]
            IN (/\ m.From_Location # m.To_Location
                /\ StockAt(before, m.Item_Name, m.From_Location) >= m.Quantity)
               => /\ StockAt(after, m.Item_Name, m.From_Location)
                       = StockAt(before, m.Item_Name, m.From_Location) - m.Quantity
                  /\ StockAt(after, m.Item_Name, m.To_Location)
                       = StockAt(before, m.Item_Name, m.To_Location) + m.Quantity
                  /\ TotalStock(after, m.Item_Name) = TotalStock(before, m.Item_Name)
      ]_vars

(* C2: a move of q units of an item from A, attempted when the balance of  *)
(* (item, A) is below q, is rejected: it does not enter the move list,     *)
(* and when the pending list is executed such a move leaves the balances   *)
(* at A and B as they are and writes no row to the log.                    *)
C2_UnderstockedMoveRejected ==
    [][/\ \A item \in Names, from \in Locations, to \in Locations, q \in 1..MaxQty :
            (/\ MoveItemSubmit(item, from, to, q)
             /\ StockAt(ws, item, from) < q)
            => moves_list' = moves_list
       /\ MovesStep =>
            \A k \in 1..Len(moves_list) :
                LET m == moves_list[k]
                    before == BeforeMove(k)
                    after == AfterMove(k)
                IN StockAt(before[1], m.Item_Name, m.From_Location) < m.Quantity
                   => /\ StockAt(after[1], m.Item_Name, m.From_Location)
                           = StockAt(before[1], m.Item_Name, m.From_Location)
                      /\ StockAt(after[1], m.Item_Name, m.To_Location)
                           = StockAt(before[1], m.Item_Name, m.To_Location)
                      /\ after[2] = before[2]
       /\ \A action \in DashActions, quantities \in Selections(inventory) :
            (ConfirmTransaction(action, quantities) /\ action = "Move Item")
            => \A k \in 1..Len(quantities) :
                 quantities[k].qty > DashStock(inventory, quantities[k].item)
                 => /\ DashStock(inventory', quantities[k].item)
                         = DashStock(inventory, quantities[k].item)
                    /\ \A n \in Len(logs) + 1..Len(logs') :
                         logs'[n].Item # quantities[k].item
      ]_vars

(* C3: after any sequence of adds, moves and purchases the current stock   *)
(* of every stock entry is at least 0.                                     *)
C3_StockNeverNegative ==
    /\ \A i \in 1..Len(ws) : ws[i].Current_Stock >= 0
    /\ \A i \in 1..Len(inventory) : inventory[i].Current_Stock >= 0

(* C4: the table never holds two stock entries with the same item and the  *)
(* same location, and an add of an (item, location) that is already in the *)
(* table or earlier in the add list is not taken into the list.            *)
C4_OneEntryPerItemLocation ==
    /\ OneEntryPerPair(ws)
    /\ \A n \in 1..Len(add_list) :
         /\ \A i \in 1..Len(ws) :
              ~(ws[i].Item_Name = add_list[n].Item_Name
                /\ ws[i].Location = add_list[n].Location)
         /\ \A k \in 1..(n - 1) :
              ~(add_list[k].Item_Name = add_list[n].Item_Name
                /\ add_list[k].Location = add_list[n].Location)

(* C5: every add taken into the add list has a quantity >= 1 and a         *)
(* non-empty item name, and executing the list creates one stock entry per *)
(* listed add whose initial and current stock both equal its quantity; an  *)
(* add with quantity 0 or an empty name changes neither the add list nor   *)
(* the table.                                                              *)
C5_AddCreatesEntry ==
    [][/\ Len(add_list') > Len(add_list) =>
            LET e == add_list'[Len(add_list')]
            IN /\ add_list' = Append(add_list, e)
               /\ e.Item_Name # ""
               /\ e.Initial_stock >= 1
               /\ e.Current_Stock = e.Initial_stock
       /\ Len(ws') > Len(ws) =>
            /\ Len(ws') = Len(ws) + Len(add_list)
            /\ SubSeq(ws', 1, Len(ws)) = ws
            /\ \A n \in 1..Len(add_list) :
                 LET row == ws'[Len(ws) + n]
                 IN /\ row.Item_Name = add_list[n].Item_Name
                    /\ row.Location = add_list[n].Location
                    /\ row.Initial_stock = add_list[n].Initial_stock
                    /\ row.Current_Stock = add_list[n].Initial_stock
                    /\ row.Initial_stock >= 1
       /\ \A name \in Names \cup {""}, category \in Categories \cup {""},
             location \in Locations, initial_stock \in 0..MaxQty :
            (/\ AddItemSubmit(name, category, location, initial_stock)
             /\ (initial_stock = 0 \/ name = ""))
            => UNCHANGED <<add_list, ws>>
      ]_vars

\* an executed add: its row in the table, as created, and its row in the log
C5_Witness ==
    /\ app = "sheets"
    /\ \E n \in 1..Len(log_sheet), i \in 1..Len(ws) :
         /\ log_sheet[n].Action = "Add"
         /\ ws[i].Item_Name = log_sheet[n].Item_Name
         /\ ws[i].Initial_stock = log_sheet[n].Details.Quantity
         /\ ws[i].Current_Stock = ws[i].Initial_stock
         /\ ws[i].Sr_No = Len(ws)
         /\ Len(ws) >= 2

(* C6: a purchase of q >= 1 units raises the current stock of exactly one  *)
(* stock entry, the one of the purchased item at its location, by q,       *)
(* leaves every other stock entry as it is, and writes exactly one         *)
(* Purchase row to the log whose final count is the previous count plus q  *)
(* (stated for tables that hold one entry per item and location).          *)
C6_PurchaseChangesOneEntry ==
    [][/\ (PurchasesStep /\ OneEntryPerPair(ws)) =>
            \A k \in 1..Len(purchase_list) :
                LET p == purchase_list[k]
                    before == BeforePurchase(k)
                    after == AfterPurchase(k)
                    changed == {i \in 1..Len(before[1]) : after[1][i] # before[1][i]}
                IN /\ p.Quantity >= 1
                   /\ Len(after[1]) = Len(before[1])
                   /\ Cardinality(changed) = 1
                   /\ \A i \in changed :
                        /\ before[1][i].Item_Name = p.Item_Name
                        /\ after[1][i] = [before[1][i] EXCEPT
                                !.Current_Stock = before[1][i].Current_Stock + p.Quantity]
                   /\ Len(after[2]) = Len(before[2]) + 1
                   /\ after[2][Len(after[2])].Action = "Purchase"
                   /\ after[2][Len(after[2])].Details.New_stock
                        = FirstStock(before[1], p.Item_Name) + p.Quantity
       /\ \A quantities \in Selections(inventory) :
            ConfirmTransaction("Purchase Item", quantities)
            => /\ Len(logs') = Len(logs) + Len(quantities)
               /\ \A i \in 1..Len(inventory) :
                    LET bought == {k \in 1..Len(quantities) :
                                     quantities[k].item = inventory[i].Item}
                    IN IF bought = {}
                       THEN inventory'[i] = inventory[i]
                       ELSE \A k \in bought :
                              /\ inventory'[i] = [inventory[i] EXCEPT
                                    !.Current_Stock = @ + quantities[k].qty]
                              /\ logs'[Len(logs) + k] =
                                    [Time |-> now, Action |-> "Purchase",
                                     Item |-> quantities[k].item,
                                     Quantity |-> quantities[k].qty,
                                     Final_Count |-> inventory[i].Current_Stock
                                                       + quantities[k].qty]
      ]_vars

(* C7: a move whose from-location equals its to-location is rejected: it   *)
(* never stands in the move list and no Move row of the log names the same *)
(* place twice.                                                            *)
C7_SamePlaceMoveRejected ==
    /\ \A k \in 1..Len(moves_list) :
         moves_list[k].From_Location # moves_list[k].To_Location
    /\ \A n \in 1..Len(log_sheet) :
         log_sheet[n].Action = "Move"
         => log_sheet[n].Details.From # log_sheet[n].Details.To

(* C8: in a batch of several moves every item is settled on its own: a     *)
(* move whose source balance covers its quantity is applied and logged, a  *)
(* move whose source balance does not is neither applied nor logged, and   *)
(* the moves after it are still processed.                                 *)
C8_BatchIsolatesFailures ==
    [][/\ (MovesStep /\ Len(moves_list) >= 2) =>
            \A k \in 1..Len(moves_list) :
                LET m == moves_list[k]
                    before == BeforeMove(k)
                    after == AfterMove(k)
                IN IF StockAt(before[1], m.Item_Name, m.From_Location) >= m.Quantity
                   THEN /\ FirstStock(after[1], m.Item_Name)
                             = FirstStock(before[1], m.Item_Name) - m.Quantity
                        /\ Len(after[2]) = Len(before[2]) + 1
                   ELSE /\ after[1] = before[1]
                        /\ after[2] = before[2]
       /\ \A quantities \in Selections(inventory) :
            (ConfirmTransaction("Move Item", quantities) /\ Len(quantities) >= 2)
            => \A k \in 1..Len(quantities) :
                 LET item == quantities[k].item
                     qty == quantities[k].qty
                     logged == {n \in Len(logs) + 1..Len(logs') : logs'[n].Item = item}
                 IN IF qty <= DashStock(inventory, item)
                    THEN /\ DashStock(inventory', item) = DashStock(inventory, item) - qty
                         /\ Cardinality(logged) = 1
                    ELSE /\ DashStock(inventory', item) = DashStock(inventory, item)
                         /\ logged = {}
      ]_vars

(* C9: the ledger is append-only: in every step the log of the next state  *)
(* extends the log of the current state, so a row once written is never    *)
(* changed, reordered or removed.                                          *)
C9_LedgerAppendOnly ==
    [][IsPrefix(log_sheet, log_sheet') /\ IsPrefix(logs, logs')]_vars

\* a log written by two executions, the second after the first
C9_Witness ==
    \/ /\ Len(log_sheet) = 2
       /\ log_sheet[1].Action # log_sheet[2].Action
    \/ /\ Len(logs) = 2
       /\ logs[1].Action # logs[2].Action

RECURSIVE SumQuantity(_, _, _)
\* the quantities of the rows of `entries` of one action and one item
SumQuantity(entries, action, item) ==
    IF entries = <<>> THEN 0
    ELSE (IF Head(entries).Action = action /\ Head(entries).Item_Name = item
          THEN Head(entries).Details.Quantity ELSE 0)
         + SumQuantity(Tail(entries), action, item)

\* index of the last row of the dashboard's log about an item (0: none)
LastLogOf(item) ==
    LET idx == {n \in 1..Len(logs) : logs[n].Item = item}
    IN IF idx = {} THEN 0 ELSE CHOOSE n \in idx : \A m \in idx : m <= n

RECURSIVE SumOfQuantities(_, _)
\* sum of the Quantity of the rows of a log at the given indices
SumOfQuantities(lg, idx) ==
    IF idx = {} THEN 0
    ELSE LET i == CHOOSE j \in idx : TRUE
         IN lg[i].Quantity + SumOfQuantities(lg, idx \ {i})

\* the calendar date of a clock reading: SlotsPerDay readings a day
CalendarDate(time) == CHOOSE d \in 0..time : d * SlotsPerDay <= time /\ time < (d + 1) * SlotsPerDay

(* C11: the daily summary shown for a log holds one (date, total) pair for *)
(* each calendar date that has a row and none for any other date, the      *)
(* total being the sum of the quantities of that date's rows, in ascending *)
(* date order; for an empty log it is empty.                               *)
C11_DailySummary ==
    [][DashboardPage =>
        LET out == daily_summary'
            rowsOn(d) == {i \in 1..Len(logs) : CalendarDate(logs[i].Time) = d}
        IN /\ \A i \in 1..Len(logs) :
                \E k \in 1..Len(out) : out[k].Date = CalendarDate(logs[i].Time)
           /\ \A k \in 1..Len(out) :
                /\ rowsOn(out[k].Date) # {}
                /\ out[k].Quantity = SumOfQuantities(logs, rowsOn(out[k].Date))
           /\ \A k \in 1..Len(out) - 1 : out[k].Date < out[k + 1].Date
           /\ logs = <<>> => out = <<>>
      ]_vars

\* a summary of two rows written at different times of one day
C11_Witness ==
    /\ Len(logs) = 2
    /\ logs[1].Time # logs[2].Time
    /\ daily_summary = << [Date |-> CalendarDate(logs[1].Time),
                           Quantity |-> logs[1].Quantity + logs[2].Quantity] >>

----------------------------------------------------------------------------
(* C12 *)

\* the entries of the batch that the current page is about to execute
BatchSize ==
    CASE current_page = "Add Item" -> Len(add_list)
      [] current_page = "Move Item" -> Len(moves_list)
      [] current_page = "Purchase Item" -> Len(purchase_list)
      [] OTHER -> 0

\* C12: the ledger and the stock table stay consistent under the persistence
\* outcomes: a step appends to the log only if it also saves the updated
\* table, and a step that saves the table appends exactly one log row for
\* each mutation of its batch.  (A batch always changes the table it saves:
\* every quantity is at least one.)
C12_LedgerMatchesSaves ==
    [][ /\ (log_sheet' # log_sheet => ws' # ws)
        /\ (ws' # ws => Len(log_sheet') = Len(log_sheet) + BatchSize) ]_vars

----------------------------------------------------------------------------
(* C13 *)

\* a row of the Logs worksheet applied to a table, as its batch applied it
Replay(df, row) ==
    IF row.Action = "Move"
    THEN MoveRows(df, MoveEntry(row.Item_Name, row.Details.From, row.Details.To,
                                row.Details.Quantity))
    ELSE PurchaseRows(df, PurchaseEntry(row.Item_Name, row.Details.Quantity))

RECURSIVE ReplayAll(_, _)
ReplayAll(df, rows) ==
    IF rows = <<>> THEN df ELSE ReplayAll(Replay(df, Head(rows)), Tail(rows))

\* the orders in which the rows of a sequence can be taken
RECURSIVE Orders(_)
Orders(rows) ==
    IF rows = <<>> THEN {<<>>}
    ELSE UNION { { <<rows[i]>> \o rest :
                     rest \in Orders([k \in 1..(Len(rows) - 1) |->
                                        IF k < i THEN rows[k] ELSE rows[k + 1]]) } :
                 i \in 1..Len(rows) }

\* no session is inside a script run or holds a list
Quiescent ==
    \A s \in Sessions :
        /\ sessions[s].pc = "idle"
        /\ sessions[s].moves_list = <<>>
        /\ sessions[s].purchase_list = <<>>

\* C13: the moves and purchases of concurrent sessions are mutually excluded:
\* once every session has finished, the stock table is the one that the logged
\* operations give when applied to the initial table one after the other in some
\* order, so that no saved update is overwritten by the save of a stale table.
C13_SerialOutcome ==
    Quiescent => \E order \in Orders(log_sheet) : ws = ReplayAll(ConcSheet, order)

====
